---- MODULE Spec2Model ----
(***************************************************************************)
(* Model of searchgenerator (src/main.py): the predicate classes and their *)
(* formatting, and the pattern walk of main() that draws narrowers and     *)
(* assembles one search string per top-level pattern item.                 *)
(*                                                                         *)
(* Values.  A leaf predicate is a record [cls, key, value]; cls is the     *)
(* Python class name.  A bare tag string held in a container is the record *)
(* with cls = "str".  A container is [cls, kids, dc]: cls is               *)
(* "MultiAndPredicate" or "MultiOrPredicate", kids its .value list and dc  *)
(* its default_constructor.  A call result is [exc, s]: exc = "none" and   *)
(* the returned string s, or the name of the exception raised.             *)
(***************************************************************************)
EXTENDS Integers, Sequences, FiniteSets, TLC

VARIABLES
    input_categories,   \* category name -> set of Narrower objects (main.py:259)
    default_predicate,  \* request['default_predicate'] (main.py:266)
    patterns,           \* request['patterns'] (main.py:265)
    i,                  \* the round counter of `for i in range(10)` (main.py:297)
    pc,                 \* where main() is: "round", "items", "walk", "done", "error"
    pattern,            \* the pattern mapping drawn for this round (main.py:338)
    item,               \* index of the pattern item being resolved (main.py:338)
    selected_narrowers, \* the exclusion set (main.py:300)
    stack,              \* the active _readLevel calls, innermost last
    output,             \* the search strings printed so far (main.py:346)
    err,                \* the exception that ended main(), [exc, at]
    drawn,              \* the narrowers drawn by the walk in progress (main.py:313)
    subject,            \* the predicate a formatting run is applied to
    res,                \* what subject.format() gave
    preds               \* what subject.all_predicates() gave

vars == <<input_categories, default_predicate, patterns, i, pc, pattern, item,
          selected_narrowers, stack, output, err, drawn, subject, res, preds>>

fmtVars == <<subject, res, preds>>

-----------------------------------------------------------------------------
(* Predicate values *)

TagClasses == {"TagPredicate", "SitePredicate"}

AO3Classes == {"TagPredicateAO3", "NotPredicateAO3", "KVPredicateAO3"}

ContainerClasses == {"MultiAndPredicate", "MultiOrPredicate"}

TagPredicate(value) == [cls |-> "TagPredicate", key |-> "", value |-> value]

SitePredicate(value) == [cls |-> "SitePredicate", key |-> "", value |-> value]

TagPredicateAO3(value) == [cls |-> "TagPredicateAO3", key |-> "tag", value |-> value]

NotPredicateAO3(value) == [cls |-> "NotPredicateAO3", key |-> "tag", value |-> value]

KVPredicateAO3(value, key) == [cls |-> "KVPredicateAO3", key |-> key, value |-> value]

Str(value) == [cls |-> "str", key |-> "", value |-> value]

MultiAndPredicate(value, dc) == [cls |-> "MultiAndPredicate", kids |-> value, dc |-> dc]

MultiOrPredicate(value, dc) == [cls |-> "MultiOrPredicate", kids |-> value, dc |-> dc]

IsContainer(p) == p.cls \in ContainerClasses

\* the class attribute op of a container
OpOf(p) == IF p.cls = "MultiAndPredicate" THEN "AND" ELSE "OR"

\* calling the class object held in default_constructor / default_predicate
Construct(dc, value) ==
    IF dc = "TagPredicate" THEN TagPredicate(value) ELSE TagPredicateAO3(value)

Return(s) == [exc |-> "none", s |-> s]

Raise(e) == [exc |-> e, s |-> ""]

-----------------------------------------------------------------------------
(* all_predicates *)

RECURSIVE all_predicates_flat(_)
RECURSIVE flat_list(_, _)

flat_list(ps, dc) ==
    IF Len(ps) = 0 THEN <<>>
    ELSE all_predicates_flat(IF Head(ps).cls = "str" THEN Construct(dc, Head(ps).value)
                             ELSE Head(ps)) \o flat_list(Tail(ps), dc)

\* all_predicates descending into nested containers
all_predicates_flat(p) ==
    IF IsContainer(p) THEN flat_list(p.kids, p.dc) ELSE <<p>>

\* BasePredicate.all_predicates yields self; PredicateContainer.all_predicates
\* yields each element of self.value, a bare string wrapped by the default
\* constructor and anything else as it is.
all_predicates(p) ==
    IF IsContainer(p)
    THEN [j \in 1..Len(p.kids) |->
            IF p.kids[j].cls = "str" THEN Construct(p.dc, p.kids[j].value)
            ELSE p.kids[j]]
    ELSE <<p>>

-----------------------------------------------------------------------------
(* format and formatBinOp *)

BasePredicate_format(p) == p.value

TagPredicateAO3_format(p) == p.key \o ":\"" \o p.value \o "\""

NotPredicateAO3_format(p) == "NOT " \o TagPredicateAO3_format(p)

SitePredicate_format(p) == "SITE:" \o p.value

leaf_format(p) ==
    CASE p.cls = "TagPredicate" -> BasePredicate_format(p)
      [] p.cls = "SitePredicate" -> SitePredicate_format(p)
      [] p.cls = "NotPredicateAO3" -> NotPredicateAO3_format(p)
      [] OTHER -> TagPredicateAO3_format(p)

RECURSIVE format(_)
RECURSIVE join(_, _)
RECURSIVE formatBinOp(_, _, _, _)

\* sep.join(p.format() for p in ps): the formats are taken in order and the
\* first exception ends the join.
join(sep, ps) ==
    IF Len(ps) = 0 THEN Return("")
    ELSE LET h == format(Head(ps)) IN
         IF h.exc # "none" THEN h
         ELSE IF Len(ps) = 1 THEN h
         ELSE LET t == join(sep, Tail(ps)) IN
              IF t.exc # "none" THEN t ELSE Return(h.s \o sep \o t.s)

RECURSIVE dedup(_)

dedup(ps) ==
    IF Len(ps) = 0 THEN <<>>
    ELSE LET front == dedup(SubSeq(ps, 1, Len(ps) - 1)) IN
         IF \E j \in 1..Len(front) : front[j] = ps[Len(ps)] THEN front
         ELSE Append(front, ps[Len(ps)])

\* TagPredicate.formatBinOp collapsing equal elements before the join
TagPredicate_formatBinOp_dedup(self, taglist, op) ==
    IF op = "AND" THEN join(" ", dedup(<<self>> \o taglist)) ELSE Raise("ValueError")

\* TagPredicate.formatBinOp joining whatever the operator is
TagPredicate_formatBinOp_anyop(self, taglist, op) ==
    join(" ", <<self>> \o taglist)


TagPredicate_formatBinOp(self, taglist, op) ==
    IF op = "AND" THEN join(" ", <<self>> \o taglist) ELSE Raise("ValueError")

TagPredicateAO3_formatBinOp(self, taglist, op) ==
    LET j == join(" " \o op \o " ", <<self>> \o taglist) IN
    IF j.exc # "none" THEN j ELSE Return("(" \o j.s \o ")")

\* MultiAndPredicate.formatBinOp passes self on unchanged to the formatBinOp of
\* the class of its own first element.  When that element is a container the
\* callee is this same function with the same arguments, and the interpreter
\* ends the unbounded recursion with RecursionError.
MultiAndPredicate_formatBinOp(self, taglist, op) ==
    LET own == all_predicates(self) IN
    IF Len(own) = 0 THEN Raise("IndexError")
    ELSE IF Len(taglist) > 0
         THEN IF IsContainer(own[1]) THEN Raise("RecursionError")
              ELSE formatBinOp(own[1].cls, self, taglist, op)
         ELSE format(self)

\* cls.formatBinOp(self, taglist, op): the method the class cls resolves to
formatBinOp(cls, self, taglist, op) ==
    CASE cls \in TagClasses -> TagPredicate_formatBinOp(self, taglist, op)
      [] cls \in AO3Classes -> TagPredicateAO3_formatBinOp(self, taglist, op)
      [] OTHER -> MultiAndPredicate_formatBinOp(self, taglist, op)

MultiAndPredicate_format(self) ==
    LET taglist == all_predicates(self) IN
    IF Len(taglist) = 0 THEN Raise("IndexError")
    ELSE IF Len(taglist) > 1
         THEN formatBinOp(taglist[1].cls, taglist[1], Tail(taglist), OpOf(self))
         ELSE format(taglist[1])

format(p) ==
    IF IsContainer(p) THEN MultiAndPredicate_format(p) ELSE Return(leaf_format(p))

-----------------------------------------------------------------------------
(* The request: categories, patterns, default_predicate *)

\* One pattern item `op: children` of a pattern mapping
Item(op, children) == [op |-> op, children |-> children]

\* The children of a pattern node: a category name, a nested mapping, or a
\* YAML scalar that is neither
Cat(name) == [t |-> "str", name |-> name, items |-> <<>>]

Dict(items) == [t |-> "dict", name |-> "", items |-> items]

Scalar == [t |-> "int", name |-> "", items |-> <<>>]

\* request[kind] of the three requests the model runs: per category the
\* (narrower name, tag list) pairs, a tag a bare string or a built predicate
RequestA ==
    [theme |-> << <<"angst", <<Str("angst")>> >>, <<"fluff", <<Str("fluff")>> >> >>,
     fandom |-> << <<"hp", <<Str("hp"), Str("potter")>> >> >>]

RequestB ==
    [theme |-> << <<"angst", <<Str("angst")>> >>, <<"_none", <<>> >> >>,
     fandom |-> << <<"hp", <<Str("hp")>> >> >>]

RequestC ==
    [theme |-> << <<"site", <<SitePredicate("ao3"), Str("x")>> >>,
                  <<"angst", <<Str("angst"), KVPredicateAO3("angst", "freeform")>> >> >>,
     fandom |-> << <<"hp", <<NotPredicateAO3("hp")>> >> >>]

Requests == {RequestA, RequestB, RequestC}

DefaultPredicates == {"TagPredicate", "TagPredicateAO3"}

\* Narrower(name, predicate_opts); kind stands for the identity of the object,
\* which is what set membership of Narrower objects compares
Narrower(kind, name, predicate_opts) ==
    [kind |-> kind, name |-> name, predicate_opts |-> predicate_opts]

\* the None that selected_narrowers starts with
None == Narrower("", "None", <<>>)

\* _load(kind): one Narrower per entry, bare strings wrapped by default_predicate
load(request, kind, dp) ==
    { Narrower(kind, request[kind][n][1],
               [j \in 1..Len(request[kind][n][2]) |->
                   IF request[kind][n][2][j].cls = "str"
                   THEN Construct(dp, request[kind][n][2][j].value)
                   ELSE request[kind][n][2][j]])
      : n \in 1..Len(request[kind]) }

load_all(request, dp) == [kind \in DOMAIN request |-> load(request, kind, dp)]

AndThemeTheme == <<Item("AND", <<Cat("theme"), Cat("theme")>>)>>

PatternLists ==
    { <<AndThemeTheme>>,
      << <<Item("AND", <<Cat("fandom"), Dict(<<Item("OR", <<Cat("theme"), Cat("fandom")>>)>>)>>)>>,
         <<Item("AND", <<Cat("theme"), Dict(<<Item("OR", <<Cat("fandom"), Cat("theme")>>)>>)>>)>> >>,
      << <<Item("OR", <<Cat("theme"), Cat("fandom")>>)>>, <<Item("AND", <<Cat("theme")>>)>> >>,
      << <<Item("AND", <<Cat("theme")>>), Item("OR", <<Cat("theme"), Cat("fandom")>>)>> >>,
      << <<Item("XOR", <<Cat("theme")>>)>>, <<Item("AND", <<Cat("theme"), Cat("nosuch")>>)>> >>,
      << <<Item("AND", <<Cat("theme"), Scalar>>)>>,
         <<Item("AND", <<Dict(<<>>), Dict(<<Item("OR", <<Cat("theme")>>)>>), Cat("fandom")>>)>> >>,
      << <<Item("OR", <<Dict(<<Item("AND", <<Cat("theme")>>), Item("OR", <<Cat("fandom")>>)>>)>>)>>,
         <<Item("AND", <<>>)>> >> }

\* the rounds the model runs of the `for i in range(10)` loop
Rounds == 2

-----------------------------------------------------------------------------
(* main(): the rounds and the pattern walk *)

Frame(op, children) ==
    [op |-> op, children |-> children, c |-> 1, k |-> 1, child_items |-> <<>>]

Top == stack[Len(stack)]

SetTop(f) == [stack EXCEPT ![Len(stack)] = f]

AtChild == pc = "walk" /\ Len(stack) > 0 /\ Top.c <= Len(Top.children)

Child == Top.children[Top.c]

\* the draw taken from the whole category, the exclusion set ignored
Available_all(child, selected) == input_categories[child]

\* set(input_categories[child]) - selected_narrowers
Available(child, selected) == input_categories[child] \ selected

\* the narrower never recorded
SelectedAfter_never(selected, narrower) == selected

\* the whole category of the narrower recorded
SelectedAfter_category(selected, narrower) ==
    IF Len(narrower.predicate_opts) > 0
    THEN selected \cup input_categories[narrower.kind]
    ELSE selected

\* lines 318-319: the narrower is recorded when it has options
SelectedAfter(selected, narrower) ==
    IF Len(narrower.predicate_opts) > 0 THEN selected \cup {narrower} ELSE selected

\* the slot without the except clause
Slot_nofallback(narrower, dp) ==
    LET predicate_opts == narrower.predicate_opts
        or_predicate == MultiOrPredicate(predicate_opts, dp)
        verify == format(or_predicate)
    IN  IF Len(predicate_opts) = 0 THEN {[exc |-> "none", add |-> <<>>]}
        ELSE IF verify.exc = "none" THEN {[exc |-> "none", add |-> <<or_predicate>>]}
        ELSE {[exc |-> verify.exc, add |-> <<>>]}

\* lines 317-328: what the slot of the drawn narrower adds to child_items, or
\* the exception that leaves the try block
Slot(narrower, dp) ==
    LET predicate_opts == narrower.predicate_opts
        or_predicate == MultiOrPredicate(predicate_opts, dp)
        verify == format(or_predicate)
    IN  IF Len(predicate_opts) = 0 THEN {[exc |-> "none", add |-> <<>>]}
        ELSE IF verify.exc = "none" THEN {[exc |-> "none", add |-> <<or_predicate>>]}
        ELSE IF verify.exc = "ValueError"
             THEN {[exc |-> "none", add |-> <<predicate_opts[j]>>] : j \in 1..Len(predicate_opts)}
             ELSE {[exc |-> verify.exc, add |-> <<>>]}

\* lines 331-336
Combine(op, child_items, dp) ==
    IF op = "AND" THEN MultiAndPredicate(child_items, dp)
    ELSE MultiOrPredicate(child_items, dp)

Fail(exc, at) ==
    /\ pc' = "error"
    /\ err' = [exc |-> exc, at |-> at]

NoErr == [exc |-> "none", at |-> ""]

\* main() up to the loop of line 297.  selected_narrowers is not bound before
\* the first round; it is given the value line 300 binds it to.
Init ==
    /\ \E request \in Requests, dp \in DefaultPredicates :
          /\ default_predicate = dp
          /\ input_categories = load_all(request, dp)
    /\ patterns \in PatternLists
    /\ i = 0
    /\ pc = "round"
    /\ pattern = <<>>
    /\ item = 1
    /\ selected_narrowers = {None}
    /\ stack = <<>>
    /\ output = <<>>
    /\ err = NoErr
    /\ drawn = <<>>
    /\ subject = Str("")
    /\ res = Return("")
    /\ preds = <<>>

\* a round that keeps the exclusion set of the round before
StartRound_keep ==
    /\ pc = "round"
    /\ i < Rounds
    /\ \E n \in 1..Len(patterns) : pattern' = patterns[n]
    /\ item' = 1
    /\ pc' = "items"
    /\ UNCHANGED <<input_categories, default_predicate, patterns, i, stack, output, err,
                   drawn, selected_narrowers>>
    /\ UNCHANGED fmtVars

\* lines 297-300, 338: a round starts with a fresh exclusion set and draws a pattern
StartRound ==
    /\ pc = "round"
    /\ i < Rounds
    /\ selected_narrowers' = {None}
    /\ \E n \in 1..Len(patterns) : pattern' = patterns[n]
    /\ item' = 1
    /\ pc' = "items"
    /\ UNCHANGED <<input_categories, default_predicate, patterns, i, stack, output, err, drawn>>
    /\ UNCHANGED fmtVars

\* line 339: _readLevel(k, v) is called for the next item of the pattern
CallReadLevel ==
    /\ pc = "items"
    /\ item <= Len(pattern)
    /\ stack' = <<Frame(pattern[item].op, pattern[item].children)>>
    /\ drawn' = <<>>
    /\ pc' = "walk"
    /\ UNCHANGED <<input_categories, default_predicate, patterns, i, pattern, item,
                   selected_narrowers, output, err>>
    /\ UNCHANGED fmtVars

\* the items of the pattern are used up: the next round
NextRound ==
    /\ pc = "items"
    /\ item > Len(pattern)
    /\ i' = i + 1
    /\ pc' = "round"
    /\ UNCHANGED <<input_categories, default_predicate, patterns, pattern, item,
                   selected_narrowers, stack, output, err, drawn>>
    /\ UNCHANGED fmtVars

Finish ==
    /\ pc = "round"
    /\ i = Rounds
    /\ pc' = "done"
    /\ UNCHANGED <<input_categories, default_predicate, patterns, i, pattern, item,
                   selected_narrowers, stack, output, err, drawn>>
    /\ UNCHANGED fmtVars

\* lines 307-309: the child is a mapping with an item left, _readLevel recurses
Descend ==
    /\ AtChild
    /\ Child.t = "dict"
    /\ Top.k <= Len(Child.items)
    /\ stack' = Append(stack, Frame(Child.items[Top.k].op, Child.items[Top.k].children))
    /\ UNCHANGED <<input_categories, default_predicate, patterns, i, pc, pattern, item,
                   selected_narrowers, output, err, drawn>>
    /\ UNCHANGED fmtVars

\* line 308: the items of the mapping are used up, on to the next child
LeaveDict ==
    /\ AtChild
    /\ Child.t = "dict"
    /\ Top.k > Len(Child.items)
    /\ stack' = SetTop([Top EXCEPT !.c = @ + 1, !.k = 1])
    /\ UNCHANGED <<input_categories, default_predicate, patterns, i, pc, pattern, item,
                   selected_narrowers, output, err, drawn>>
    /\ UNCHANGED fmtVars

\* line 313: input_categories[child] raises KeyError
LookupFails ==
    /\ AtChild
    /\ Child.t = "str"
    /\ Child.name \notin DOMAIN input_categories
    /\ Fail("KeyError", "lookup")
    /\ UNCHANGED <<input_categories, default_predicate, patterns, i, pattern, item,
                   selected_narrowers, stack, output, drawn>>
    /\ UNCHANGED fmtVars

\* line 313: random.choice of an empty list raises IndexError
ChoiceFails ==
    /\ AtChild
    /\ Child.t = "str"
    /\ Child.name \in DOMAIN input_categories
    /\ Available(Child.name, selected_narrowers) = {}
    /\ Fail("IndexError", "choice")
    /\ UNCHANGED <<input_categories, default_predicate, patterns, i, pattern, item,
                   selected_narrowers, stack, output, drawn>>
    /\ UNCHANGED fmtVars

\* lines 313-328: a narrower is drawn and its slot added to child_items
DrawNarrower ==
    /\ AtChild
    /\ Child.t = "str"
    /\ Child.name \in DOMAIN input_categories
    /\ \E narrower \in Available(Child.name, selected_narrowers) :
          /\ drawn' = Append(drawn, narrower)
          /\ selected_narrowers' = SelectedAfter(selected_narrowers, narrower)
          /\ \E slot \in Slot(narrower, default_predicate) :
                IF slot.exc = "none"
                THEN /\ stack' = SetTop([Top EXCEPT !.c = @ + 1,
                                                   !.child_items = @ \o slot.add])
                     /\ UNCHANGED <<pc, err>>
                ELSE /\ Fail(slot.exc, "slot")
                     /\ UNCHANGED stack
    /\ UNCHANGED <<input_categories, default_predicate, patterns, i, pattern, item, output>>
    /\ UNCHANGED fmtVars

\* lines 329-330: a child that is neither a mapping nor a string
BadChild ==
    /\ AtChild
    /\ Child.t \notin {"dict", "str"}
    /\ Fail("NotImplementedError", "child")
    /\ UNCHANGED <<input_categories, default_predicate, patterns, i, pattern, item,
                   selected_narrowers, stack, output, drawn>>
    /\ UNCHANGED fmtVars

AtReturn == pc = "walk" /\ Len(stack) > 0 /\ Top.c > Len(Top.children)

\* lines 335-336: the children are done and the operator is neither AND nor OR
BadOp ==
    /\ AtReturn
    /\ Top.op \notin {"AND", "OR"}
    /\ Fail("NotImplementedError", "op")
    /\ UNCHANGED <<input_categories, default_predicate, patterns, i, pattern, item,
                   selected_narrowers, stack, output, drawn>>
    /\ UNCHANGED fmtVars

\* lines 331-334 and 309: a nested call returns its composite to its caller
ReturnNested ==
    /\ AtReturn
    /\ Top.op \in {"AND", "OR"}
    /\ Len(stack) > 1
    /\ LET composite == Combine(Top.op, Top.child_items, default_predicate)
           caller == stack[Len(stack) - 1]
       IN  stack' = [SubSeq(stack, 1, Len(stack) - 1) EXCEPT ![Len(stack) - 1] =
                        [caller EXCEPT !.k = @ + 1,
                                       !.child_items = Append(@, composite)]]
    /\ UNCHANGED <<input_categories, default_predicate, patterns, i, pc, pattern, item,
                   selected_narrowers, output, err, drawn>>
    /\ UNCHANGED fmtVars

\* lines 339-346: the outermost call returns, the composite is formatted and printed
ReturnTop ==
    /\ AtReturn
    /\ Top.op \in {"AND", "OR"}
    /\ Len(stack) = 1
    /\ LET search == format(Combine(Top.op, Top.child_items, default_predicate))
       IN  IF search.exc = "none"
           THEN /\ output' = Append(output, search.s)
                /\ item' = item + 1
                /\ pc' = "items"
                /\ stack' = <<>>
                /\ UNCHANGED err
           ELSE /\ Fail(search.exc, "format")
                /\ UNCHANGED <<output, item, stack>>
    /\ UNCHANGED <<input_categories, default_predicate, patterns, i, pattern,
                   selected_narrowers, drawn>>
    /\ UNCHANGED fmtVars

Next ==
    \/ StartRound
    \/ CallReadLevel
    \/ NextRound
    \/ Finish
    \/ Descend
    \/ LeaveDict
    \/ LookupFails
    \/ ChoiceFails
    \/ DrawNarrower
    \/ BadChild
    \/ BadOp
    \/ ReturnNested
    \/ ReturnTop

Spec == Init /\ [][Next]_vars

-----------------------------------------------------------------------------
(* Formatting runs: format() and all_predicates() applied to one predicate *)

\* the most elements a container under test holds
MaxKids == 2

FmtLeaves ==
    { TagPredicate("a"), TagPredicate("b"), SitePredicate("a"),
      TagPredicateAO3("a"), TagPredicateAO3("b"), NotPredicateAO3("a"),
      KVPredicateAO3("a", "fandom"), Str("a") }

InnerLeaves == { TagPredicate("a"), TagPredicateAO3("a") }

InnerLists ==
    {<<>>} \cup { <<x>> : x \in InnerLeaves } \cup { <<x, y>> : x, y \in InnerLeaves }

\* containers of leaves
Inner(dc) == { Combine(op, l, dc) : op \in {"AND", "OR"}, l \in InnerLists }

\* containers whose first element is itself a container
Deep(dc) ==
    { MultiAndPredicate(<<MultiOrPredicate(<<TagPredicateAO3("a")>>, dc)>>, dc),
      MultiOrPredicate(<<MultiOrPredicate(<<TagPredicateAO3("a"), TagPredicateAO3("b")>>, dc),
                         TagPredicateAO3("a")>>, dc) }

Kids(dc) == FmtLeaves \cup Inner(dc) \cup Deep(dc)

KidLists(dc) == UNION { [1..n -> Kids(dc)] : n \in 0..MaxKids }

Subjects(dc) ==
    (FmtLeaves \ {Str("a")})
        \cup { Combine(op, l, dc) : op \in {"AND", "OR"}, l \in KidLists(dc) }

InitFormat ==
    /\ default_predicate \in DefaultPredicates
    /\ subject \in Subjects(default_predicate)
    /\ res = Return("")
    /\ preds = <<>>
    /\ pc = "format"
    /\ input_categories = load_all(RequestA, default_predicate)
    /\ patterns = <<>>
    /\ i = 0
    /\ pattern = <<>>
    /\ item = 1
    /\ selected_narrowers = {None}
    /\ stack = <<>>
    /\ output = <<>>
    /\ err = NoErr
    /\ drawn = <<>>

ApplyFormat ==
    /\ pc = "format"
    /\ res' = format(subject)
    /\ pc' = "all_predicates"
    /\ UNCHANGED <<input_categories, default_predicate, patterns, i, pattern, item,
                   selected_narrowers, stack, output, err, drawn, subject, preds>>

ApplyAllPredicates ==
    /\ pc = "all_predicates"
    /\ preds' = all_predicates(subject)
    /\ pc' = "applied"
    /\ UNCHANGED <<input_categories, default_predicate, patterns, i, pattern, item,
                   selected_narrowers, stack, output, err, drawn, subject, res>>

NextFormat ==
    \/ ApplyFormat
    \/ ApplyAllPredicates

SpecFormat == InitFormat /\ [][NextFormat]_vars

-----------------------------------------------------------------------------
(* Properties of the pattern walk, checked under Spec *)

AllNarrowers == UNION { input_categories[kind] : kind \in DOMAIN input_categories }

EveryNarrowerHasOptions == \A n \in AllNarrowers : Len(n.predicate_opts) >= 1

\* C1: when every narrower has an option, the narrowers drawn by one top-level
\* walk, nested levels included, are pairwise distinct.
C1_DrawnDistinct ==
    EveryNarrowerHasOptions =>
        \A a, b \in 1..Len(drawn) : a # b => drawn[a] # drawn[b]

\* a walk that drew twice from one category, the second time in a nested level
C1_Witness ==
    /\ EveryNarrowerHasOptions
    /\ pc = "walk"
    /\ Len(stack) = 2
    /\ \E a, b \in 1..Len(drawn) : a < b /\ drawn[a].kind = drawn[b].kind

RECURSIVE RefsInChildren(_, _)
RECURSIVE RefsInItems(_, _)

\* how often the children of a pattern node, nested nodes included, name cat
RefsInChildren(children, cat) ==
    IF Len(children) = 0 THEN 0
    ELSE LET c == Head(children) IN
         (IF c.t = "str" THEN (IF c.name = cat THEN 1 ELSE 0)
          ELSE RefsInItems(c.items, cat))
         + RefsInChildren(Tail(children), cat)

RefsInItems(items, cat) ==
    IF Len(items) = 0 THEN 0
    ELSE RefsInChildren(Head(items).children, cat) + RefsInItems(Tail(items), cat)

RECURSIVE WellFormedChildren(_)
RECURSIVE WellFormedItems(_)

\* operators AND/OR only, at least one child per node, every category present
WellFormedChildren(children) ==
    /\ Len(children) > 0
    /\ \A j \in 1..Len(children) :
          \/ children[j].t = "str" /\ children[j].name \in DOMAIN input_categories
          \/ children[j].t = "dict" /\ WellFormedItems(children[j].items)

WellFormedItems(items) ==
    /\ Len(items) > 0
    /\ \A j \in 1..Len(items) :
          items[j].op \in {"AND", "OR"} /\ WellFormedChildren(items[j].children)

\* C2: a well-formed pattern over narrowers that all have options ends, when
\* it ends in an exception, in one of the defined errors: unknown category,
\* exhausted category or unsupported operator; the ValueError of joining plain
\* tags with OR never reaches the caller.
C2_OnlyDefinedErrors ==
    (/\ pc = "error"
     /\ EveryNarrowerHasOptions
     /\ WellFormedItems(pattern))
        => /\ err.exc # "ValueError"
           /\ \/ err = [exc |-> "KeyError", at |-> "lookup"]
              \/ err = [exc |-> "IndexError", at |-> "choice"]
              \/ err = [exc |-> "NotImplementedError", at |-> "op"]

SingleNarrower(cat) ==
    /\ Cardinality(input_categories[cat]) = 1
    /\ \A n \in input_categories[cat] : Len(n.predicate_opts) >= 1

\* the walk stands at a child naming cat after having drawn from cat before
AtSecondReference(cat) ==
    /\ pc \in {"walk", "error"}
    /\ Len(stack) > 0
    /\ Top.c <= Len(Top.children)
    /\ Child = Cat(cat)
    /\ \E a \in 1..Len(drawn) : drawn[a].kind = cat

\* C3: for a category with exactly one narrower, which has an option: at the
\* second reference of a walk to the category no narrower of it is left, the
\* exception raised there is the IndexError of the empty draw, and no walk of
\* an item that names the category twice returns.
C3_SecondReferenceExhausted ==
    \A cat \in DOMAIN input_categories :
        SingleNarrower(cat) =>
            /\ AtSecondReference(cat) =>
                  /\ Available(cat, selected_narrowers) = {}
                  /\ pc = "error" => err = [exc |-> "IndexError", at |-> "choice"]
            /\ \A j \in 1..Len(pattern) :
                  j < item => RefsInChildren(pattern[j].children, cat) < 2

\* the walk failed at the second reference, met in a nested level
C3_Witness ==
    /\ pc = "error"
    /\ err = [exc |-> "IndexError", at |-> "choice"]
    /\ Len(stack) = 2
    /\ \E cat \in DOMAIN input_categories :
          /\ SingleNarrower(cat)
          /\ AtSecondReference(cat)
          /\ RefsInChildren(pattern[item].children, cat) = 2

\* the registry and the pattern of the end-to-end scenario
C4_Scenario ==
    /\ input_categories["theme"] =
          { Narrower("theme", "angst", <<TagPredicateAO3("angst")>>),
            Narrower("theme", "fluff", <<TagPredicateAO3("fluff")>>) }
    /\ patterns = <<AndThemeTheme>>

\* C4 as stated: in the scenario AND("theme","theme") raises on every run and
\* no search is ever produced.
C4_AlwaysExhausted == C4_Scenario => (Len(output) = 0 /\ pc # "done")

\* C4 as amended: in the scenario the walk never raises, and every search it
\* produces is the AND of the two narrowers' tags in one of the two orders.
C4_BothNarrowersUsed ==
    C4_Scenario =>
        /\ pc # "error"
        /\ \A j \in 1..Len(output) :
              output[j] \in { "(tag:\"angst\" AND tag:\"fluff\")",
                              "(tag:\"fluff\" AND tag:\"angst\")" }
        /\ (pc = "items" /\ item = 2) => Len(output) = i + 1

C4_Witness ==
    /\ C4_Scenario
    /\ pc = "items"
    /\ item = 2
    /\ Len(output) = 1

Mismatch(n) ==
    /\ Len(n.predicate_opts) > 0
    /\ format(MultiOrPredicate(n.predicate_opts, default_predicate)).exc = "ValueError"

\* C8: a step that draws a narrower whose OR group fails to format with
\* ValueError does not raise: the level stays the same, its child_items grow
\* by exactly one element, one of the narrower's own options, the narrower is
\* in selected_narrowers and the walk stands at the next child.
C8_FallbackContinues ==
    [][ (pc = "walk" /\ Len(drawn') = Len(drawn) + 1 /\ Mismatch(drawn'[Len(drawn')]))
          => LET n == drawn'[Len(drawn')]
                 before == stack[Len(stack)]
                 after == stack'[Len(stack')]
             IN  /\ pc' = "walk"
                 /\ Len(stack') = Len(stack)
                 /\ after.c = before.c + 1
                 /\ Len(after.child_items) = Len(before.child_items) + 1
                 /\ SubSeq(after.child_items, 1, Len(before.child_items)) = before.child_items
                 /\ \E j \in 1..Len(n.predicate_opts) :
                       after.child_items[Len(after.child_items)] = n.predicate_opts[j]
                 /\ n \in selected_narrowers'
      ]_vars

\* the walk went on after a fallback under an OR node
C8_Witness ==
    /\ pc = "walk"
    /\ Len(drawn) > 0
    /\ Mismatch(drawn[Len(drawn)])
    /\ Top.op = "OR"
    /\ Top.c = 2
    /\ Len(Top.child_items) = 1
    /\ ~IsContainer(Top.child_items[1])
    /\ drawn[Len(drawn)] \in selected_narrowers

\* C10 as stated: every top-level walk starts with no narrower selected.
C10_EveryWalkStartsEmpty ==
    (pc = "walk" /\ Len(stack) = 1 /\ Top.c = 1 /\ drawn = <<>>)
        => selected_narrowers = {None}

\* C10 as amended: every round starts with no narrower selected, and within a
\* round the start and the return of a top-level walk leave the selection as it
\* is, so that the walks of one round share it.
C10_RoundStartsEmpty ==
    [][ /\ (pc = "round" /\ pc' = "items") => selected_narrowers' = {None}
        /\ (pc = "items" /\ pc' = "walk") => selected_narrowers' = selected_narrowers
        /\ (pc = "walk" /\ pc' = "items") => selected_narrowers' = selected_narrowers
      ]_vars

\* a later round starts empty after a round that produced a search
C10_Witness ==
    /\ i >= 1
    /\ pc = "items"
    /\ item = 1
    /\ Len(output) >= 1
    /\ selected_narrowers = {None}

-----------------------------------------------------------------------------
(* Properties of format() and all_predicates(), checked under SpecFormat *)

Formatted == pc \in {"all_predicates", "applied"}

Expanded == pc = "applied"

RECURSIVE JoinStr(_, _)

\* the strings of a list with sep between each two
JoinStr(strs, sep) ==
    IF Len(strs) = 0 THEN ""
    ELSE IF Len(strs) = 1 THEN strs[1]
    ELSE strs[1] \o sep \o JoinStr(Tail(strs), sep)

RemoveAt(seq, k) == SubSeq(seq, 1, k - 1) \o SubSeq(seq, k + 1, Len(seq))

Elements(p) == all_predicates(p)

\* a container all of whose elements are plain tags
PlainGroup(p) ==
    /\ IsContainer(p)
    /\ \A j \in 1..Len(Elements(p)) : Elements(p)[j].cls = "TagPredicate"

\* C5 as stated: under the generic backend a container of plain tags with two
\* equal elements formats as the same container with the later of the two
\* removed.
C5_DuplicatesCollapsed ==
    (Formatted /\ default_predicate = "TagPredicate" /\ PlainGroup(subject)) =>
        \A j, k \in 1..Len(subject.kids) :
            (j < k /\ Elements(subject)[j] = Elements(subject)[k])
                => res = format([subject EXCEPT !.kids = RemoveAt(@, k)])

\* C5 as amended: a MultiAndPredicate of plain tags formats as the values of
\* all its elements in order, joined by single spaces, equal elements
\* included; with one of two equal elements removed the format differs.
C5_DuplicatesKept ==
    (Formatted /\ PlainGroup(subject) /\ OpOf(subject) = "AND" /\ Len(subject.kids) >= 1) =>
        /\ res = Return(JoinStr([j \in 1..Len(subject.kids) |-> Elements(subject)[j].value], " "))
        /\ \A j, k \in 1..Len(subject.kids) :
              (j < k /\ Elements(subject)[j] = Elements(subject)[k])
                  => res # format([subject EXCEPT !.kids = RemoveAt(@, k)])

C5_Witness ==
    /\ Formatted
    /\ subject = MultiAndPredicate(<<TagPredicate("a"), TagPredicate("a")>>, "TagPredicate")
    /\ res = Return("a a")

ElementResults(p) == [j \in 1..Len(Elements(p)) |-> format(Elements(p)[j])]

AllFormat(p) == \A j \in 1..Len(Elements(p)) : ElementResults(p)[j].exc = "none"

ElementStrings(p) == [j \in 1..Len(Elements(p)) |-> ElementResults(p)[j].s]

FirstFailure(p) ==
    LET j == CHOOSE j \in 1..Len(Elements(p)) :
                 /\ ElementResults(p)[j].exc # "none"
                 /\ \A h \in 1..(j - 1) : ElementResults(p)[h].exc = "none"
    IN  ElementResults(p)[j]

FirstIsPlain(p) ==
    /\ IsContainer(p)
    /\ Len(p.kids) >= 2
    /\ Elements(p)[1].cls = "TagPredicate"

\* C6 as stated: a container of two or more elements whose first element is a
\* plain tag formats as its elements' formats joined by single spaces,
\* whatever its operator.
C6_SpaceJoinedAnyOperator ==
    (Formatted /\ FirstIsPlain(subject) /\ AllFormat(subject))
        => res = Return(JoinStr(ElementStrings(subject), " "))

\* C6 as amended: such a MultiAndPredicate formats as its elements' formats
\* joined by single spaces, or raises what the first failing element raises;
\* such a MultiOrPredicate raises ValueError.
C6_SpaceJoinedUnderAnd ==
    (Formatted /\ FirstIsPlain(subject)) =>
        IF OpOf(subject) = "AND"
        THEN IF AllFormat(subject)
             THEN res = Return(JoinStr(ElementStrings(subject), " "))
             ELSE res = Raise(FirstFailure(subject).exc)
        ELSE res = Raise("ValueError")

\* an AND container led by a plain tag, with a parenthesized container after it
C6_Witness ==
    /\ Formatted
    /\ FirstIsPlain(subject)
    /\ OpOf(subject) = "AND"
    /\ IsContainer(subject.kids[2])
    /\ res = Return("a (tag:\"a\" OR tag:\"a\")")

KeyedClasses == {"TagPredicateAO3", "KVPredicateAO3"}

RECURSIVE AllLeavesKeyed(_)
RECURSIVE NoEmptyGroup(_)
RECURSIVE Expected(_)

AllLeavesKeyed(p) ==
    IF IsContainer(p)
    THEN \A j \in 1..Len(Elements(p)) : AllLeavesKeyed(Elements(p)[j])
    ELSE p.cls \in KeyedClasses

NoEmptyGroup(p) ==
    IsContainer(p) =>
        /\ Len(p.kids) > 0
        /\ \A j \in 1..Len(Elements(p)) : NoEmptyGroup(Elements(p)[j])

\* the string the target backend is to give: key:"value" for a leaf, the only
\* element's string for a container of one, the parenthesized join otherwise
Expected(p) ==
    IF ~IsContainer(p) THEN p.key \o ":\"" \o p.value \o "\""
    ELSE IF Len(p.kids) = 1 THEN Expected(Elements(p)[1])
    ELSE "(" \o JoinStr([j \in 1..Len(p.kids) |-> Expected(Elements(p)[j])],
                        " " \o OpOf(p) \o " ") \o ")"

\* C7: under the target-search backend a container of two or more elements
\* whose leaves are all keyed tags formats as the parenthesized join of its elements' formats with its
\* operator, nested containers included.
C7_ParenthesizedJoin ==
    (/\ Formatted
     /\ default_predicate = "TagPredicateAO3"
     /\ IsContainer(subject)
     /\ Len(subject.kids) >= 2
     /\ AllLeavesKeyed(subject)
     /\ NoEmptyGroup(subject))
        => res = Return(Expected(subject))

RECURSIVE Leaves(_)
RECURSIVE LeavesOfList(_)

\* the leaves of the whole subtree, in order
Leaves(p) == IF IsContainer(p) THEN LeavesOfList(Elements(p)) ELSE <<p>>

LeavesOfList(ps) ==
    IF Len(ps) = 0 THEN <<>> ELSE Leaves(Head(ps)) \o LeavesOfList(Tail(ps))

\* C9 as stated: all_predicates() gives the leaves of the whole subtree and
\* never a container.
C9_YieldsLeaves ==
    Expanded =>
        /\ preds = Leaves(subject)
        /\ \A j \in 1..Len(preds) : ~IsContainer(preds[j])

\* C9 as amended: all_predicates() of a leaf gives that leaf; of a container
\* it gives one element per child, in order: the child itself, a container
\* child included, or the default constructor's predicate for a bare string.
C9_YieldsChildren ==
    Expanded =>
        IF IsContainer(subject)
        THEN /\ Len(preds) = Len(subject.kids)
             /\ \A j \in 1..Len(preds) :
                   IF subject.kids[j].cls = "str"
                   THEN preds[j] = Construct(subject.dc, subject.kids[j].value)
                   ELSE preds[j] = subject.kids[j]
        ELSE preds = <<subject>>

C9_Witness ==
    /\ Expanded
    /\ IsContainer(subject)
    /\ Len(preds) = 2
    /\ IsContainer(preds[1])
    /\ Len(preds[1].kids) = 2
    /\ subject.kids[2] = Str("a")

====
